---------------------------- MODULE Spec2Model ----------------------------
(***************************************************************************)
(* Stylii: the streaming design-generation client.                         *)
(*                                                                         *)
(*   generateDesign   (lib/client)  request, chunk decoding, line          *)
(*                    splitting, frame parsing, progress dispatch and the  *)
(*                    transformation of the final payload                  *)
(*   useStyliiStore   (lib/store)   the zustand store, and its older       *)
(*                    version without currentProgress                      *)
(*   handleSubmit     (components/multi-step-design-form.tsx)              *)
(*                                                                         *)
(* The wire text is a sequence of units.  Each unit is one byte of the     *)
(* response body, except that a run of JSON members of a frame ("status":  *)
(* "completed", "success":true, ...) is written as a single unit; the      *)
(* 'data: ' prefix, the braces, the characters of a message string and the *)
(* newline are single bytes, and the character e-acute is the two bytes    *)
(* C3 A9.  Chunk boundaries may fall between any two units.                *)
(*                                                                         *)
(* A nullable value (string | null, object | null) is <<>> for null and    *)
(* <<v>> for v.  Wall-clock fields (createdAt, latency) are not modelled.  *)
(***************************************************************************)
EXTENDS Integers, Sequences, FiniteSets, TLC

\* ---------------------------------------------------------------- bounds
\* Frames in the response to a direct call of generateDesign.
MaxFrames == 3
\* Frames in the response to a request made by handleSubmit.
SubmitFrames == 2
\* handleSubmit invocations in one session.
MaxAttempts == 2
\* Units delivered by one reader.read(), unless it delivers all that is left.
MaxChunk == 7
\* Entries of designer_data.product_recommendations in a transformed payload.
MaxProducts == 2
\* Entries of the result history when the store actions are called directly.
MaxResults == 2
\* Members of a frame whose classification is explored on its own.
MaxMembers == 3
\* Frames in the response to the request of the video component.
VideoFrames == 2

Null == <<>>
Some(v) == <<v>>

Min(a, b) == IF a < b THEN a ELSE b

\* ------------------------------------------------------------- wire units
LF == "\n"
LeadByte == "C3"
ContByte == "A9"
EAcute == "U+00E9"
Replacement == "U+FFFD"

\* 'data: '
DataPrefix == <<"d", "a", "t", "a", ":", " ">>

\* Characters that occur inside a message string.
TextChars == {"d", "a", "t", ":", " ", EAcute, Replacement}

\* ------------------------------------------------ TextDecoder (UTF-8)
\* decoder.decode(value, { stream: true }): bytes are decoded in order; a
\* lead byte waits (also across chunks) for its continuation byte; a lead
\* byte followed by anything else, and a continuation byte without a lead,
\* decode to U+FFFD.  Returns the text and the bytes still pending.
\* (Len(out) < 0 never holds: out is read at every byte, so that the text
\* is built as the bytes are taken and not all at once at the end.)
RECURSIVE DecodeFrom(_, _, _, _)
DecodeFrom(pending, bytes, i, out) ==
    IF i > Len(bytes) \/ Len(out) < 0
    THEN [text |-> out, pending |-> pending]
    ELSE LET b == bytes[i] IN
         IF pending # <<>>
         THEN IF b = ContByte
              THEN DecodeFrom(<<>>, bytes, i + 1, Append(out, EAcute))
              ELSE DecodeFrom(<<>>, bytes, i, Append(out, Replacement))
         ELSE IF b = LeadByte
              THEN DecodeFrom(<<b>>, bytes, i + 1, out)
              ELSE IF b = ContByte
                   THEN DecodeFrom(<<>>, bytes, i + 1, Append(out, Replacement))
                   ELSE DecodeFrom(<<>>, bytes, i + 1, Append(out, b))

\* A decoder that treats every chunk as a whole text: an incomplete
\* character at the end of the chunk is replaced, nothing is kept.
DecodeIsolated(pending, bytes) ==
    LET r == DecodeFrom(<<>>, bytes, 1, <<>>) IN
    [text |-> IF r.pending = <<>> THEN r.text ELSE Append(r.text, Replacement),
     pending |-> <<>>]

DecodeStream(pending, bytes) == DecodeFrom(pending, bytes, 1, <<>>)

\* ------------------------------------------------------- String.split
\* s.split('\n'): the segments between newlines; always at least one.
RECURSIVE SplitFrom(_, _, _, _)
SplitFrom(s, i, cur, acc) ==
    IF i > Len(s)
    THEN Append(acc, cur)
    ELSE IF s[i] = LF
         THEN SplitFrom(s, i + 1, <<>>, Append(acc, cur))
         ELSE SplitFrom(s, i + 1, Append(cur, s[i]), acc)

SplitLines(s) == SplitFrom(s, 1, <<>>, <<>>)

\* lines.pop() || '': the last segment; the segments before it are the
\* complete lines.
Front(seq) == SubSeq(seq, 1, Len(seq) - 1)
Last(seq) == seq[Len(seq)]

\* The pop forgotten: the fragment is processed as a line too.
AllSegments(segments) == segments

\* After lines.pop(), lines holds the complete lines.
CompleteLines(segments) == Front(segments)

\* buffer = lines.pop() || ''  forgotten: the fragment is dropped.
DropFragment(segments) == <<>>

KeepFragment(segments) == Last(segments)

\* line.startsWith('data: ')
StartsWith(line, prefix) ==
    /\ Len(line) >= Len(prefix)
    /\ SubSeq(line, 1, Len(prefix)) = prefix

\* line.slice(6)
Slice(line, n) == SubSeq(line, n + 1, Len(line))

\* ---------------------------------------------------------- JSON.parse
\* The members a frame can carry, one unit each, and the field each sets.
Lamp == [title |-> "Lamp", vendor |-> "IKEA", price |-> 49]
Bare == [id |-> "sku-77"]
Chair == [id |-> "sku-9", title |-> "Chair", price |-> 0,
          thumbnail |-> "t.png", url |-> "https://shop/chair"]

\* The value null.
JsonNull == [null |-> TRUE]

\* A string held where the program expects an array is written
\* <<[scalar |-> s]>>.
IsScalar(v) == Len(v) = 1 /\ "scalar" \in DOMAIN v[1]

MemberTable ==
    [ stP  |-> [status |-> "processing"],
      stC  |-> [status |-> "completed"],
      ok   |-> [success |-> TRUE],
      no   |-> [success |-> FALSE],
      err  |-> [error |-> "upstream timeout"],
      err0 |-> [error |-> ""],
      stE  |-> [status |-> "error"],
      rich |-> [request_id |-> "abc123",
                generated_image |-> [data |-> "iVBOR"],
                designer_data |->
                  [product_recommendations |-> <<Lamp>>,
                   room_analysis |-> "bright"],
                style |-> "industrial",
                budget |-> 1],
      nul  |-> [designer_data |->
                  [product_recommendations |-> <<Lamp, JsonNull>>]],
      str  |-> [designer_data |->
                  [product_recommendations |-> <<[scalar |-> "none"]>>]] ]

MsgOpen == "m:"

\* Later members override earlier ones, as in JSON.parse.
Override(obj, member) == member @@ obj

\* The members between the braces, left to right.  A message string is
\* opened by MsgOpen and holds the text characters that follow it, spaces
\* included, up to the next member.  A space outside a message string is
\* insignificant whitespace and is skipped.  Any other unit is a syntax
\* error.
RECURSIVE ParseMembers(_, _, _, _)
ParseMembers(toks, i, obj, inMsg) ==
    IF i > Len(toks)
    THEN [ok |-> TRUE, value |-> obj]
    ELSE LET t == toks[i] IN
         IF t = MsgOpen
         THEN ParseMembers(toks, i + 1, Override(obj, [message |-> <<>>]), TRUE)
         ELSE IF t \in DOMAIN MemberTable
              THEN ParseMembers(toks, i + 1, Override(obj, MemberTable[t]), FALSE)
              ELSE IF t = " " /\ ~inMsg
              THEN ParseMembers(toks, i + 1, obj, FALSE)
              ELSE IF inMsg /\ t \in TextChars
                   THEN ParseMembers(toks, i + 1,
                            [obj EXCEPT !.message = Append(@, t)], TRUE)
                   ELSE [ok |-> FALSE, value |-> <<>>]

EmptyObject == [x \in {} |-> TRUE]

\* The whitespace JSON.parse skips before and after the value.
RECURSIVE TrimLeft(_)
TrimLeft(text) ==
    IF text # <<>> /\ text[1] = " " THEN TrimLeft(Tail(text)) ELSE text

RECURSIVE TrimRight(_)
TrimRight(text) ==
    IF text # <<>> /\ text[Len(text)] = " "
    THEN TrimRight(Front(text)) ELSE text

Trim(text) == TrimRight(TrimLeft(text))

\* JSON.parse(text): ok with the object, or not ok (SyntaxError).  The text
\* 'null' parses to null, written [null |-> TRUE].
\* A parser that takes an object without its closing brace.
JSONParseLenient(text) ==
    LET t == Trim(text) IN
    IF t = <<"null">>
    THEN [ok |-> TRUE, value |-> JsonNull]
    ELSE IF Len(t) >= 1 /\ t[1] = "{"
         THEN ParseMembers(
                  SubSeq(t, 2,
                         IF t[Len(t)] = "}" THEN Len(t) - 1 ELSE Len(t)),
                  1, EmptyObject, FALSE)
         ELSE [ok |-> FALSE, value |-> <<>>]

JSONParse(text) ==
    LET t == Trim(text) IN
    IF t = <<"null">>
    THEN [ok |-> TRUE, value |-> JsonNull]
    ELSE IF Len(t) >= 2 /\ t[1] = "{" /\ t[Len(t)] = "}"
         THEN ParseMembers(SubSeq(t, 2, Len(t) - 1), 1, EmptyObject, FALSE)
         ELSE [ok |-> FALSE, value |-> <<>>]

\* ----------------------------------------------- the body of the for loop
Has(obj, f) == f \in DOMAIN obj

\* The error field not looked at.
ErrorIgnored(data) == FALSE

\* if (data.error): the field is present and not the empty string.
ErrorTruthy(data) == Has(data, "error") /\ data.error # ""

\* The success indicator not looked at.
IsCompletedStatusOnly(data) == Has(data, "status") /\ data.status = "completed"

\* data.status === 'completed' && data.success
IsCompleted(data) ==
    /\ Has(data, "status") /\ data.status = "completed"
    /\ Has(data, "success") /\ data.success = TRUE

\* The argument of onProgress: status and message with their defaults, and
\* the parsed frame.
ProgressOf(data) ==
    [status  |-> IF Has(data, "status") /\ data.status # ""
                 THEN data.status ELSE "processing",
     message |-> IF Has(data, "message") /\ data.message # <<>>
                 THEN data.message ELSE <<"Processing...">>,
     data    |-> data]

\* throw new Error(data.error) inside the try block: the catch of the same
\* try logs a warning, nothing else happens to the line.
ThrownError(data) == "drop"

\* What one line of the for loop does:
\*   "skip"      no 'data: ' prefix
\*   "drop"      JSON.parse threw, or the frame's handling threw: warning
\*   "capture"   finalResult = data
\*   "progress"  onProgress(...) if a callback was supplied
LineKind(line) ==
    IF ~StartsWith(line, DataPrefix)
    THEN "skip"
    ELSE LET p == JSONParse(Slice(line, Len(DataPrefix))) IN
         IF ~p.ok THEN "drop"
         ELSE IF p.value = JsonNull THEN "drop"
         ELSE IF ErrorTruthy(p.value) THEN ThrownError(p.value)
         ELSE IF IsCompleted(p.value) THEN "capture"
         ELSE "progress"

LineData(line) == JSONParse(Slice(line, Len(DataPrefix))).value

\* ------------------------------------------------------ the transformation
\* product.title || 'Unknown Product', ...
MapProduct(product, index) ==
    LET base ==
          [id     |-> ToString(index + 1),
           title  |-> IF Has(product, "title") /\ product.title # ""
                      THEN product.title ELSE "Unknown Product",
           vendor |-> IF Has(product, "vendor") /\ product.vendor # ""
                      THEN product.vendor ELSE "Unknown",
           price  |-> IF Has(product, "price") THEN product.price ELSE 0,
           image  |-> IF Has(product, "thumbnail") /\ product.thumbnail # ""
                      THEN product.thumbnail ELSE "/placeholder.png",
           url    |-> IF Has(product, "url") /\ product.url # ""
                      THEN product.url ELSE "#"]
    IN IF Has(product, "thumbnail")
       THEN [thumbnail |-> product.thumbnail] @@ base
       ELSE base

\* finalResult.designer_data?.product_recommendations || []
\* null and the empty string are falsy and give way to [] (null is told
\* from a list by its printed form, the two not being comparable).
Recommendations(payload) ==
    IF Has(payload, "designer_data")
       /\ Has(payload.designer_data, "product_recommendations")
       /\ ToString(payload.designer_data.product_recommendations)
             # ToString(JsonNull)
       /\ payload.designer_data.product_recommendations # <<[scalar |-> ""]>>
    THEN payload.designer_data.product_recommendations
    ELSE <<>>

\* The TypeErrors of the transformation, in the words of Node 20.
ErrNotArray == "((intermediate value) || []).map is not a function"
ErrNullProduct == "Cannot read properties of null (reading 'title')"

Optional(name, obj, f) ==
    IF Has(obj, f) THEN (name :> obj[f]) ELSE [x \in {} |-> TRUE]

\* A transformation that trusts the payload: ids, style and budget are taken
\* from it when it carries them.
TransformFromPayload(payload, input, token) ==
    LET recs == Recommendations(payload) IN
    [id        |-> IF Has(payload, "request_id") /\ payload.request_id # ""
                   THEN payload.request_id ELSE token,
     renderUrl |-> <<"/placeholder.png">>,
     products  |-> [i \in 1..Len(recs) |->
                      IF Has(recs[i], "id")
                      THEN [MapProduct(recs[i], i - 1) EXCEPT !.id = recs[i].id]
                      ELSE MapProduct(recs[i], i - 1)],
     style     |-> IF Has(payload, "style") THEN payload.style ELSE input.style,
     budget    |-> IF Has(payload, "budget") THEN payload.budget ELSE input.budget]

\* A transformation that takes every payload: a string maps to no product
\* and a null entry to a product of defaults.
TransformNeverThrows(payload, input, token) ==
    LET recs == IF IsScalar(Recommendations(payload))
                THEN <<>> ELSE Recommendations(payload)
    IN [id        |-> IF Has(payload, "request_id") /\ payload.request_id # ""
                      THEN payload.request_id ELSE token,
        renderUrl |-> <<"/placeholder.png">>,
        products  |-> [i \in 1..Len(recs) |-> MapProduct(recs[i], i - 1)],
        style     |-> input.style,
        budget    |-> input.budget]

\* The object generateDesign returns (createdAt and latency left out), or
\* what the transformation throws: .map of a string is not a function, and
\* product.title of a null entry cannot be read.
\* token is the value of Math.random().toString(36).substr(2, 9).
Transform(payload, input, token) ==
    LET recs == Recommendations(payload)
        dd   == IF Has(payload, "designer_data")
                THEN payload.designer_data ELSE [x \in {} |-> TRUE]
    IN IF IsScalar(recs) THEN [thrown |-> ErrNotArray]
       ELSE IF \E i \in 1..Len(recs) : recs[i] = JsonNull
       THEN [thrown |-> ErrNullProduct]
       ELSE
       [id        |-> IF Has(payload, "request_id") /\ payload.request_id # ""
                      THEN payload.request_id ELSE token,
        renderUrl |-> IF Has(payload, "generated_image")
                         /\ Has(payload.generated_image, "data")
                         /\ payload.generated_image.data # ""
                      THEN <<"data:image/png;base64,", payload.generated_image.data>>
                      ELSE <<"/placeholder.png">>,
        products  |-> [i \in 1..Len(recs) |-> MapProduct(recs[i], i - 1)],
        style     |-> input.style,
        budget    |-> input.budget]
       @@ Optional("designerData", payload, "designer_data")
       @@ Optional("roomAnalysis", dd, "room_analysis")
       @@ Optional("designCritique", dd, "design_critique")
       @@ Optional("userPreferences", dd, "user_preferences")

RandomTokens == {"k3j9x2a1q", "z8f0w5m2c"}

\* The payloads and requests the transformation is explored on.
ProductKinds == {Lamp, Bare, Chair}

ProductLists == UNION { [1..k -> ProductKinds] : k \in 0..MaxProducts }

DesignerDatas ==
    { [x \in {} |-> TRUE], [designer_data |-> [design_critique |-> "ok"]],
      MemberTable.nul, MemberTable.str }
    \cup { [designer_data |-> [product_recommendations |-> l,
                               room_analysis |-> "bright"]] : l \in ProductLists }

PayloadExtras ==
    { [x \in {} |-> TRUE],
      [request_id |-> "abc123"],
      [style |-> "industrial", budget |-> 1],
      [request_id |-> "abc123", style |-> "industrial", budget |-> 1,
       generated_image |-> [data |-> "iVBOR"]] }

TransformPayloads ==
    { [status |-> "completed", success |-> TRUE] @@ dd @@ extra :
        dd \in DesignerDatas, extra \in PayloadExtras }

TransformInputs ==
    { [images |-> <<"room.jpg">>, style |-> s, budget |-> b,
       notes |-> "", selectedProducts |-> <<>>] :
        s \in {"modern", "scandinavian"}, b \in {5000, 800} }

\* ------------------------------------------------------------ error texts
ErrNoImage == "At least one image is required"
ErrNoResult == "No final result received from server"
ErrNoBody == "No response body"
ErrHttp == "HTTP error! status: 500"
ErrNetwork == "Failed to fetch"
ErrFormNoImage == "Please upload at least one image"
ErrCallback == "callback failed"

\* ------------------------------------------------------------ the server
\* The frames a response is made of.
\*   P1  data: {"status":"processing","message":"a"}
\*   P2  data: {"status":"completed","message":"<e-acute>"}     (no success)
\*   S1  data: {"status":"completed","success":true,"request_id":...}
\*   S2  data: {"status":"completed","success":true}
\*   E1  data: {"error":"upstream timeout"}
\*   X   data: {"status":"processing"                      (cut short)
\*   B   an empty line
FrameKinds == {"P1", "P2", "S1", "S2", "E1", "X", "B"}

FrameBytes(k) ==
    CASE k = "P1" -> DataPrefix \o <<"{", "stP", MsgOpen, "a", "}">>
      [] k = "P2" -> DataPrefix \o <<"{", "stC", MsgOpen, LeadByte, ContByte, "}">>
      [] k = "S1" -> DataPrefix \o <<"{", "stC", "ok", "rich", "}">>
      [] k = "S2" -> DataPrefix \o <<"{", "stC", "ok", "}">>
      [] k = "E1" -> DataPrefix \o <<"{", "err", "}">>
      [] k = "X"  -> DataPrefix \o <<"{", "stP">>
      [] k = "B"  -> <<>>
      [] k = "N1" -> DataPrefix \o <<"{", "stC", "ok", "nul", "}">>
      [] k = "N2" -> DataPrefix \o <<"{", "stC", "ok", "str", "}">>

\* The body of a response: its frames, each followed by a newline, the last
\* one only if the response is terminated.
RECURSIVE WireFrom(_, _, _)
WireFrom(frames, terminated, i) ==
    IF i > Len(frames) THEN <<>>
    ELSE FrameBytes(frames[i])
         \o (IF i < Len(frames) \/ terminated THEN <<LF>> ELSE <<>>)
         \o WireFrom(frames, terminated, i + 1)

WireOf(sc) == WireFrom(sc.frames, sc.terminated, 1)

Scripts(n) ==
    { [frames |-> f, terminated |-> t] :
        f \in UNION { [1..k -> FrameKinds] : k \in 0..n }, t \in BOOLEAN }

\* Responses chosen for their payloads: besides progress, success and error
\* frames, success frames whose payload the transformation cannot take:
\*   N1  product_recommendations holds a null entry
\*   N2  product_recommendations is a string
PayloadScripts ==
    { [frames |-> f, terminated |-> t] :
        f \in UNION { [1..k -> {"P1", "S1", "S2", "E1", "N1", "N2"}] :
                        k \in 0..SubmitFrames },
        t \in BOOLEAN }

DirectScripts == Scripts(MaxFrames)
SubmitScripts == Scripts(SubmitFrames)
RetryScripts == Scripts(1)
NoScript == [frames |-> <<>>, terminated |-> TRUE]

\* ----------------------------------------------------------------- state
\* useStyliiStore: images .. currentResultId
VARIABLES images, budget, style, notes, selectedProducts,
    isGenerating, error, currentProgress,
    results, currentResultId,
    \* the store action called last
    lastCall,
    \* handleSubmit
    hsPc, hsInput, attempt,
    \* generateDesign
    gdPc, gdInput, gdOnProgress,
    buffer, decoderPending, lines, finalResult,
    gdResult, gdError,
    \* the response body and the requests made
    script, wire, pos, ended, fetchCalls,
    \* history of the current attempt
    callbacks, yielded, resultsAtSubmit,
    \* a second call of generateDesign, overlapping the first
    second,
    \* the VideoGeneration component
    video

formVars == <<images, budget, style, notes, selectedProducts>>
uiVars == <<isGenerating, error, currentProgress>>
resVars == <<results, currentResultId>>
storeVars == <<formVars, uiVars, resVars, lastCall>>
hsVars == <<hsPc, hsInput, attempt, resultsAtSubmit>>
gdLocals == <<buffer, decoderPending, lines, finalResult>>
gdVars == <<gdPc, gdInput, gdOnProgress, gdLocals, gdResult, gdError>>
netVars == <<script, wire, pos, ended, fetchCalls>>
histVars == <<callbacks, yielded>>
auxVars == <<second, video>>
vars == <<storeVars, hsVars, gdVars, netVars, histVars, auxVars>>

\* No second call.
NoSecond ==
    [pc |-> "off", buffer |-> <<>>, decoderPending |-> <<>>, lines |-> <<>>,
     finalResult |-> Null, gdResult |-> Null, gdError |-> Null,
     script |-> NoScript, wire |-> <<>>, pos |-> 0, ended |-> FALSE,
     callbacks |-> <<>>, yielded |-> <<>>]

\* useState(false), useState(null) x 3; no handler running (handler is the
\* one that ran last), no request made.
NoVideo ==
    [pc |-> "idle", handler |-> "none", isGenerating |-> FALSE,
     error |-> Null, progress |-> Null, videoUrl |-> Null,
     script |-> NoScript, wire |-> <<>>, pos |-> 0]

NoInput == [images |-> <<>>, style |-> "", budget |-> 0,
            notes |-> "", selectedProducts |-> <<>>]

StartingProgress ==
    [status |-> "starting", message |-> <<"Initializing design generation...">>]

Init ==
    /\ images = <<>>
    /\ budget = 5000
    /\ style = "modern"
    /\ notes = ""
    /\ selectedProducts = <<>>
    /\ isGenerating = FALSE
    /\ error = Null
    /\ currentProgress = Null
    /\ results = <<>>
    /\ currentResultId = Null
    /\ lastCall = "create"
    /\ hsPc = "idle"
    /\ hsInput = NoInput
    /\ attempt = 0
    /\ resultsAtSubmit = 0
    /\ gdPc = "idle"
    /\ gdInput = NoInput
    /\ gdOnProgress = "none"
    /\ buffer = <<>>
    /\ decoderPending = <<>>
    /\ lines = <<>>
    /\ finalResult = Null
    /\ gdResult = Null
    /\ gdError = Null
    /\ script = NoScript
    /\ wire = <<>>
    /\ pos = 0
    /\ ended = FALSE
    /\ fetchCalls = 0
    /\ callbacks = <<>>
    /\ second = NoSecond
    /\ video = NoVideo
    /\ yielded = <<>>

\* ------------------------------------------------------ the store actions
\* setImages, setStyle: set({ images }), set({ style })
SetImages(imgs) ==
    /\ hsPc = "idle" /\ gdPc = "idle"
    /\ images # imgs
    /\ images' = imgs
    /\ lastCall' = "setImages"
    /\ UNCHANGED <<budget, style, notes, selectedProducts, uiVars, resVars,
                   hsVars, gdVars, netVars, histVars>>
    /\ UNCHANGED auxVars

SetStyle(s) ==
    /\ hsPc = "idle" /\ gdPc = "idle"
    /\ style # s
    /\ style' = s
    /\ lastCall' = "setStyle"
    /\ UNCHANGED <<images, budget, notes, selectedProducts, uiVars, resVars,
                   hsVars, gdVars, netVars, histVars>>
    /\ UNCHANGED auxVars

\* addResult putting the entry behind the ones there are.
AddResultAtEnd(result) ==
    /\ results' = results \o <<result>>
    /\ currentResultId' = Some(result.id)
    /\ isGenerating' = FALSE
    /\ currentProgress' = Null
    /\ error' = Null
    /\ lastCall' = "addResult"

\* addResult committing the entry twice.
AddResultTwice(result) ==
    /\ results' = <<result, result>> \o results
    /\ currentResultId' = Some(result.id)
    /\ isGenerating' = FALSE
    /\ currentProgress' = Null
    /\ error' = Null
    /\ lastCall' = "addResult"

\* addResult: one set() call.
AddResult(result) ==
    /\ results' = <<result>> \o results
    /\ currentResultId' = Some(result.id)
    /\ isGenerating' = FALSE
    /\ currentProgress' = Null
    /\ error' = Null
    /\ lastCall' = "addResult"

\* ------------------------------------- the store actions, called directly
\* The arguments the actions are called with.
Budgets == {5000, 800}
NotesTexts == {"", "cozy"}
ProductChoices == {<<>>, <<"lighting">>}
ErrorValues == {Null, Some("Please upload at least one image")}
ProgressValues == {Null, Some(StartingProgress)}

SampleInput ==
    [images |-> <<"room.jpg">>, style |-> "scandinavian", budget |-> 800,
     notes |-> "", selectedProducts |-> <<>>]

\* Two results as generateDesign returns them: one with the id of its
\* payload, one with a generated id.
StoreResults ==
    { Transform(MemberTable.rich @@ MemberTable.ok @@ MemberTable.stC,
                SampleInput, "k3j9x2a1q"),
      Transform(MemberTable.ok @@ MemberTable.stC, SampleInput, "k3j9x2a1q") }

\* No attempt of the form is running.
NoAttempt == hsPc = "idle" /\ gdPc = "idle"

\* setBudget: set({ budget })
SetBudget(b) ==
    /\ NoAttempt
    /\ budget # b
    /\ budget' = b
    /\ lastCall' = "setBudget"
    /\ UNCHANGED <<images, style, notes, selectedProducts, uiVars, resVars,
                   hsVars, gdVars, netVars, histVars>>
    /\ UNCHANGED auxVars

\* setNotes: set({ notes })
SetNotes(n) ==
    /\ NoAttempt
    /\ notes # n
    /\ notes' = n
    /\ lastCall' = "setNotes"
    /\ UNCHANGED <<images, budget, style, selectedProducts, uiVars, resVars,
                   hsVars, gdVars, netVars, histVars>>
    /\ UNCHANGED auxVars

\* setSelectedProducts: set({ selectedProducts })
SetSelectedProducts(ps) ==
    /\ NoAttempt
    /\ selectedProducts # ps
    /\ selectedProducts' = ps
    /\ lastCall' = "setSelectedProducts"
    /\ UNCHANGED <<images, budget, style, notes, uiVars, resVars,
                   hsVars, gdVars, netVars, histVars>>
    /\ UNCHANGED auxVars

\* setIsGenerating: set({ isGenerating })
SetIsGenerating(b) ==
    /\ NoAttempt
    /\ isGenerating' = b
    /\ lastCall' = "setIsGenerating"
    /\ UNCHANGED <<formVars, error, currentProgress, resVars,
                   hsVars, gdVars, netVars, histVars>>
    /\ UNCHANGED auxVars

\* setError: set({ error })
SetError(e) ==
    /\ NoAttempt
    /\ error' = e
    /\ lastCall' = "setError"
    /\ UNCHANGED <<formVars, isGenerating, currentProgress, resVars,
                   hsVars, gdVars, netVars, histVars>>
    /\ UNCHANGED auxVars

\* setProgress storing the snapshot and dropping the history.
SetProgressDroppingResults(p) ==
    /\ NoAttempt
    /\ currentProgress' = p
    /\ results' = <<>>
    /\ currentResultId' = Null
    /\ lastCall' = "setProgress"
    /\ UNCHANGED <<formVars, isGenerating, error,
                   hsVars, gdVars, netVars, histVars>>
    /\ UNCHANGED auxVars

\* setProgress: set({ currentProgress })
SetProgress(p) ==
    /\ NoAttempt
    /\ currentProgress' = p
    /\ lastCall' = "setProgress"
    /\ UNCHANGED <<formVars, isGenerating, error, resVars,
                   hsVars, gdVars, netVars, histVars>>
    /\ UNCHANGED auxVars

\* addResult(result)
CallAddResult(result) ==
    /\ NoAttempt
    /\ Len(results) < MaxResults
    /\ AddResult(result)
    /\ UNCHANGED <<formVars, hsVars, gdVars, netVars, histVars>>
    /\ UNCHANGED auxVars

\* setCurrentResult: set({ currentResultId: id })
SetCurrentResult(id) ==
    /\ NoAttempt
    /\ currentResultId' = Some(id)
    /\ lastCall' = "setCurrentResult"
    /\ UNCHANGED <<formVars, uiVars, results, hsVars, gdVars, netVars, histVars>>
    /\ UNCHANGED auxVars

\* A reset that clears the results as well.
ResetAll ==
    /\ NoAttempt
    /\ images' = <<>>
    /\ budget' = 5000
    /\ style' = "modern"
    /\ notes' = ""
    /\ selectedProducts' = <<>>
    /\ isGenerating' = FALSE
    /\ error' = Null
    /\ currentProgress' = Null
    /\ results' = <<>>
    /\ currentResultId' = Null
    /\ lastCall' = "reset"
    /\ UNCHANGED <<hsVars, gdVars, netVars, histVars>>
    /\ UNCHANGED auxVars

\* reset: one set() naming the form inputs, isGenerating, error and
\* currentProgress; results and currentResultId are not named.
Reset ==
    /\ NoAttempt
    /\ images' = <<>>
    /\ budget' = 5000
    /\ style' = "modern"
    /\ notes' = ""
    /\ selectedProducts' = <<>>
    /\ isGenerating' = FALSE
    /\ error' = Null
    /\ currentProgress' = Null
    /\ lastCall' = "reset"
    /\ UNCHANGED <<resVars, hsVars, gdVars, netVars, histVars>>
    /\ UNCHANGED auxVars

\* ------------------------------------------ the older version of the store
\* The second useStyliiStore of lib/store: no currentProgress and no
\* setProgress, style initially ''.  Its setters are those above.
LegacyInit ==
    /\ images = <<>>
    /\ budget = 5000
    /\ style = ""
    /\ notes = ""
    /\ selectedProducts = <<>>
    /\ isGenerating = FALSE
    /\ error = Null
    /\ currentProgress = Null
    /\ results = <<>>
    /\ currentResultId = Null
    /\ lastCall = "create"
    /\ hsPc = "idle"
    /\ hsInput = NoInput
    /\ attempt = 0
    /\ resultsAtSubmit = 0
    /\ gdPc = "idle"
    /\ gdInput = NoInput
    /\ gdOnProgress = "none"
    /\ buffer = <<>>
    /\ decoderPending = <<>>
    /\ lines = <<>>
    /\ finalResult = Null
    /\ gdResult = Null
    /\ gdError = Null
    /\ script = NoScript
    /\ wire = <<>>
    /\ pos = 0
    /\ ended = FALSE
    /\ fetchCalls = 0
    /\ callbacks = <<>>
    /\ second = NoSecond
    /\ video = NoVideo
    /\ yielded = <<>>

\* addResult: set() naming results and currentResultId only.
LegacyAddResult(result) ==
    /\ NoAttempt
    /\ Len(results) < MaxResults
    /\ results' = <<result>> \o results
    /\ currentResultId' = Some(result.id)
    /\ lastCall' = "addResult"
    /\ UNCHANGED <<formVars, uiVars, hsVars, gdVars, netVars, histVars>>
    /\ UNCHANGED auxVars

\* reset: set() naming the form inputs, isGenerating and error.
LegacyReset ==
    /\ NoAttempt
    /\ images' = <<>>
    /\ budget' = 5000
    /\ style' = ""
    /\ notes' = ""
    /\ selectedProducts' = <<>>
    /\ isGenerating' = FALSE
    /\ error' = Null
    /\ lastCall' = "reset"
    /\ UNCHANGED <<currentProgress, resVars, hsVars, gdVars, netVars, histVars>>
    /\ UNCHANGED auxVars

\* --------------------------------------------------------- generateDesign
\* !input.images || input.images.length === 0
NoImages(input) == ~Has(input, "images") \/ Len(input.images) = 0

\* The validation skipped: the request is made whatever the input.
NeverNoImages(input) == FALSE

RejectsInput(input) == NoImages(input)

\* The call itself, up to its first await: validation, the form data, and
\* the call of fetch.  The validation throws before the try block.
Enter(input, cb) ==
    /\ gdInput' = input
    /\ gdOnProgress' = cb
    /\ gdResult' = Null
    /\ UNCHANGED gdLocals
    /\ callbacks' = <<>>
    /\ yielded' = <<>>
    /\ script' = NoScript
    /\ wire' = <<>>
    /\ pos' = 0
    /\ ended' = FALSE
    /\ IF RejectsInput(input)
       THEN /\ gdPc' = "rejected"
            /\ gdError' = Some(ErrNoImage)
            /\ UNCHANGED fetchCalls
       ELSE /\ gdPc' = "fetch"
            /\ gdError' = Null
            /\ fetchCalls' = fetchCalls + 1

\* A caller other than the form: any input, with or without a callback.
DirectInputs ==
    { [images |-> <<"room.jpg">>, style |-> "scandinavian", budget |-> 800,
       notes |-> "", selectedProducts |-> <<>>],
      [images |-> <<>>, style |-> "modern", budget |-> 5000,
       notes |-> "", selectedProducts |-> <<>>],
      [style |-> "modern", budget |-> 5000,
       notes |-> "", selectedProducts |-> <<>>] }

DirectCall ==
    /\ hsPc = "idle" /\ gdPc = "idle"
    /\ fetchCalls < MaxAttempts
    /\ \E input \in DirectInputs, cb \in {"record", "none"} : Enter(input, cb)
    /\ UNCHANGED <<storeVars, hsVars>>
    /\ UNCHANGED auxVars

\* A caller whose callback throws.
ThrowingCall ==
    /\ hsPc = "idle" /\ gdPc = "idle"
    /\ fetchCalls < MaxAttempts
    /\ \E input \in DirectInputs : Enter(input, "throws")
    /\ UNCHANGED <<storeVars, hsVars>>
    /\ UNCHANGED auxVars

\* await fetch(...) rejects.
FetchRejects ==
    /\ gdPc = "fetch"
    /\ gdPc' = "rejected"
    /\ gdError' = Some(ErrNetwork)
    /\ UNCHANGED <<storeVars, hsVars, gdInput, gdOnProgress, gdLocals, gdResult,
                   netVars, histVars>>
    /\ UNCHANGED auxVars

\* The status looked at only after chunks may have been read.
FetchNotOkLate ==
    /\ gdPc \in {"fetch", "read"}
    /\ gdPc' = "rejected"
    /\ gdError' = Some(ErrHttp)
    /\ UNCHANGED <<storeVars, hsVars, gdInput, gdOnProgress, gdLocals, gdResult,
                   netVars, histVars>>
    /\ UNCHANGED auxVars

\* !response.ok
FetchNotOk ==
    /\ gdPc = "fetch"
    /\ gdPc' = "rejected"
    /\ gdError' = Some(ErrHttp)
    /\ UNCHANGED <<storeVars, hsVars, gdInput, gdOnProgress, gdLocals, gdResult,
                   netVars, histVars>>
    /\ UNCHANGED auxVars

\* !response.body
FetchNoBody ==
    /\ gdPc = "fetch"
    /\ gdPc' = "rejected"
    /\ gdError' = Some(ErrNoBody)
    /\ UNCHANGED <<storeVars, hsVars, gdInput, gdOnProgress, gdLocals, gdResult,
                   netVars, histVars>>
    /\ UNCHANGED auxVars

\* The responses explored: the longest ones for a direct call with a
\* callback, shorter ones for a direct call without one and for the first
\* submit of a session, one frame for later submits and for each of two
\* overlapping calls.
ScriptsFor(cb, n) ==
    IF second.pc # "off" THEN RetryScripts
    ELSE IF cb = "record" THEN DirectScripts
    ELSE IF cb = "none" \/ n <= 1 THEN SubmitScripts
    ELSE RetryScripts

\* The response is ok and has a body: reader, decoder, buffer = '',
\* finalResult = null, and the first reader.read().
StreamsFrom(scripts) ==
    /\ gdPc = "fetch"
    /\ \E sc \in scripts :
          /\ script' = sc
          /\ wire' = WireOf(sc)
    /\ pos' = 0
    /\ buffer' = <<>>
    /\ decoderPending' = <<>>
    /\ lines' = <<>>
    /\ finalResult' = Null
    /\ gdPc' = "read"
    /\ UNCHANGED <<storeVars, hsVars, gdInput, gdOnProgress, gdResult, gdError,
                   ended, fetchCalls, histVars>>
    /\ UNCHANGED auxVars

FetchStreams == StreamsFrom(ScriptsFor(gdOnProgress, attempt))

\* The same step on a response chosen for its payloads.
PayloadStreams == StreamsFrom(PayloadScripts)

\* The sizes of the chunk a read can deliver when left units remain.
ChunkSizes(left) == (1..Min(MaxChunk, left)) \cup {left}

\* reader.read() delivers a chunk: decode, append, split, keep the fragment.
ReadChunk ==
    /\ gdPc = "read"
    /\ pos < Len(wire)
    /\ \E n \in ChunkSizes(Len(wire) - pos) :
       \E d \in {DecodeStream(decoderPending, SubSeq(wire, pos + 1, pos + n))} :
       \E segs \in {SplitLines(buffer \o d.text)} :
       \E complete \in {CompleteLines(segs)} :
          /\ pos' = pos + n
          /\ decoderPending' = d.pending
          /\ buffer' = KeepFragment(segs)
          /\ lines' = complete
          /\ yielded' = yielded \o complete
          /\ gdPc' = IF complete = <<>> THEN "read" ELSE "lines"
    /\ UNCHANGED <<storeVars, hsVars, gdInput, gdOnProgress, finalResult,
                   gdResult, gdError, script, wire, ended, fetchCalls, callbacks>>
    /\ UNCHANGED auxVars

\* reader.read() rejects: the outer catch logs and rethrows.  What the call
\* did before (the lines handled, the callbacks made) stays done.
ReadFails ==
    /\ gdPc = "read"
    /\ gdPc' = "rejected"
    /\ gdError' = Some(ErrNetwork)
    /\ UNCHANGED <<storeVars, hsVars, gdInput, gdOnProgress, gdLocals, gdResult,
                   netVars, histVars>>
    /\ UNCHANGED auxVars

\* The snapshot left as it is by the callback of the form.
StaleSnapshot(progress) == currentProgress

\* The callback of the form: (progress) => { setProgress(progress) }
FormCallback(progress) == Some(progress)

\* What a callback throws leaves the loop and the call.
CallbackThrowEscapes == "escapes"

\* onProgress is called inside the try block of the line: what it throws is
\* caught with the parse failures, and the loop goes on.
CallbackThrow == "caught"

\* One iteration of  for (const line of lines).  The callback is one of
\*   "none"         no callback supplied
\*   "record"       a callback that returns
\*   "throws"       a callback that throws on every call
\*   "setProgress"  the callback of the form
ProcessLine ==
    /\ gdPc = "lines"
    /\ LET line   == Head(lines)
           kind   == LineKind(line)
           called == kind = "progress" /\ gdOnProgress # "none"
           aborts == called /\ gdOnProgress = "throws"
                            /\ CallbackThrow = "escapes"
       IN /\ lines' = Tail(lines)
          /\ finalResult' = IF kind = "capture"
                            THEN Some(LineData(line)) ELSE finalResult
          /\ IF called
             THEN /\ callbacks' = Append(callbacks, ProgressOf(LineData(line)))
                  /\ currentProgress' =
                        IF gdOnProgress = "setProgress"
                        THEN FormCallback(ProgressOf(LineData(line)))
                        ELSE currentProgress
                  /\ lastCall' =
                        IF gdOnProgress = "setProgress"
                        THEN "setProgress" ELSE lastCall
             ELSE UNCHANGED <<callbacks, currentProgress, lastCall>>
          /\ gdPc' = IF aborts THEN "rejected"
                     ELSE IF Tail(lines) = <<>> THEN "read" ELSE "lines"
          /\ gdError' = IF aborts THEN Some(ErrCallback) ELSE gdError
    /\ UNCHANGED <<formVars, isGenerating, error, resVars, hsVars, gdInput,
                   gdOnProgress, buffer, decoderPending, gdResult, netVars,
                   yielded>>
    /\ UNCHANGED auxVars

\* A reader that reports done as soon as a payload has been captured.
DoneOrCaptured == pos = Len(wire) \/ finalResult # Null

\* reader.read() reports done: the body has been delivered to its end.
Done == pos = Len(wire)

\* The payload looked for after the loop, with the text left in the buffer
\* parsed as a last line when nothing was captured.
FinalPayloadWithBuffer ==
    IF finalResult = Null /\ LineKind(buffer) = "capture"
    THEN Some(LineData(buffer))
    ELSE finalResult

\* if (!finalResult): the payload captured by the loop; the buffer is not
\* looked at.
FinalPayload == finalResult

\* reader.read() reports done: the loop ends; without a captured payload the
\* call rejects, with one it returns the transformed result, unless the
\* transformation throws: the outer catch rethrows and the call rejects.
EndOfStream ==
    /\ gdPc = "read"
    /\ Done
    /\ IF FinalPayload = Null
       THEN /\ gdPc' = "rejected"
            /\ gdError' = Some(ErrNoResult)
            /\ UNCHANGED gdResult
       ELSE \E token \in RandomTokens :
            \E r \in {Transform(FinalPayload[1], gdInput, token)} :
               IF Has(r, "thrown")
               THEN /\ gdPc' = "rejected"
                    /\ gdError' = Some(r.thrown)
                    /\ UNCHANGED gdResult
               ELSE /\ gdPc' = "resolved"
                    /\ gdResult' = Some(r)
                    /\ UNCHANGED gdError
    /\ ended' = TRUE
    /\ UNCHANGED <<storeVars, hsVars, gdInput, gdOnProgress, gdLocals, script,
                   wire, pos, fetchCalls, histVars>>
    /\ UNCHANGED auxVars

\* ----------------------------------------------------------- handleSubmit
\* The call is over: its locals, and the history kept of it, are gone (the
\* frames of its response are remembered until the next call).
CallOver ==
    /\ gdPc' = "idle"
    /\ gdInput' = NoInput
    /\ gdOnProgress' = "none"
    /\ buffer' = <<>>
    /\ decoderPending' = <<>>
    /\ lines' = <<>>
    /\ finalResult' = Null
    /\ gdResult' = Null
    /\ gdError' = Null
    /\ wire' = <<>>
    /\ pos' = 0
    /\ ended' = FALSE
    /\ callbacks' = <<>>
    /\ yielded' = <<>>
    /\ UNCHANGED <<script, fetchCalls>>

ImageLists == {<<>>, <<"room.jpg">>}
Styles == {"modern", "scandinavian"}

\* The form rendered whatever the flag.
AlwaysShown == TRUE

\* if (isGenerating) return <overlay>: the form, and its submit button, are
\* rendered only while the flag is false.
FormShown == ~isGenerating

\* The rejection also raising the flag.
RejectSubmitGenerating ==
    /\ error' = Some(ErrFormNoImage)
    /\ isGenerating' = TRUE

\* if (images.length === 0) { setError(...); return }
RejectSubmit ==
    /\ error' = Some(ErrFormNoImage)
    /\ UNCHANGED isGenerating

\* The click, which the browser delivers between two tasks (no handleSubmit
\* is running, or one is suspended at its await) and only to a rendered
\* button: with no image, setError and return; otherwise
\* setIsGenerating(true).
HandleSubmit ==
    /\ hsPc \in {"idle", "await"}
    /\ hsPc = "idle" => gdPc = "idle"
    /\ FormShown
    /\ IF Len(images) = 0
       THEN /\ RejectSubmit
            /\ lastCall' = "setError"
            /\ UNCHANGED hsVars
       ELSE /\ attempt < MaxAttempts
            /\ isGenerating' = TRUE
            /\ lastCall' = "setIsGenerating"
            /\ hsPc' = "setError"
            /\ hsInput' = [images |-> images, style |-> style,
                           budget |-> budget, notes |-> notes,
                           selectedProducts |-> selectedProducts]
            /\ attempt' = attempt + 1
            /\ resultsAtSubmit' = Len(results)
            /\ UNCHANGED error
    /\ UNCHANGED <<formVars, currentProgress, resVars, gdVars, netVars, histVars>>
    /\ UNCHANGED auxVars

\* The error of the previous attempt left in place.
KeepError == UNCHANGED error

\* setError(null): set({ error })
ClearError == error' = Null

\* setError(null)
HsSetError ==
    /\ hsPc = "setError"
    /\ ClearError
    /\ lastCall' = "setError"
    /\ hsPc' = "setProgress"
    /\ UNCHANGED <<formVars, isGenerating, currentProgress, resVars, hsInput,
                   attempt, resultsAtSubmit, gdVars, netVars, histVars>>
    /\ UNCHANGED auxVars

\* setProgress({ status: 'starting', ... })
HsSetProgress ==
    /\ hsPc = "setProgress"
    /\ currentProgress' = Some(StartingProgress)
    /\ lastCall' = "setProgress"
    /\ hsPc' = "call"
    /\ UNCHANGED <<formVars, isGenerating, error, resVars, hsInput,
                   attempt, resultsAtSubmit, gdVars, netVars, histVars>>
    /\ UNCHANGED auxVars

\* await generateDesign(input, progress => setProgress(progress))
HsCall ==
    /\ hsPc = "call"
    /\ Enter(hsInput, "setProgress")
    /\ hsPc' = "await"
    /\ UNCHANGED <<storeVars, hsInput, attempt, resultsAtSubmit>>
    /\ UNCHANGED auxVars

\* The promise resolved: addResult(result).  (router.push is not modelled.)
HsAddResult ==
    /\ hsPc = "await"
    /\ gdPc = "resolved"
    /\ AddResult(gdResult[1])
    /\ hsPc' = "idle"
    /\ CallOver
    /\ UNCHANGED <<formVars, hsInput, attempt, resultsAtSubmit>>
    /\ UNCHANGED auxVars

\* The message of the catch: a fixed text whatever was thrown.
GenericMessage(thrown) == Some("Failed to generate design")

\* error instanceof Error ? error.message : 'Failed to generate design'
\* (generateDesign only ever rejects with an Error).
MessageOf(thrown) == thrown

\* The promise rejected: catch, setError(error.message).
HsCatchError ==
    /\ hsPc = "await"
    /\ gdPc = "rejected"
    /\ error' = MessageOf(gdError)
    /\ lastCall' = "setError"
    /\ hsPc' = "catchGenerating"
    /\ UNCHANGED <<formVars, isGenerating, currentProgress, resVars, hsInput,
                   attempt, resultsAtSubmit, gdVars, netVars, histVars>>
    /\ UNCHANGED auxVars

\* The flag left as it is.
KeepGenerating == UNCHANGED isGenerating

\* setIsGenerating(false): set({ isGenerating })
ClearGenerating == isGenerating' = FALSE

\* setIsGenerating(false)
HsCatchGenerating ==
    /\ hsPc = "catchGenerating"
    /\ ClearGenerating
    /\ lastCall' = "setIsGenerating"
    /\ hsPc' = "catchProgress"
    /\ UNCHANGED <<formVars, error, currentProgress, resVars, hsInput,
                   attempt, resultsAtSubmit, gdVars, netVars, histVars>>
    /\ UNCHANGED auxVars

\* setProgress(null)
HsCatchProgress ==
    /\ hsPc = "catchProgress"
    /\ currentProgress' = Null
    /\ lastCall' = "setProgress"
    /\ hsPc' = "idle"
    /\ CallOver
    /\ UNCHANGED <<formVars, isGenerating, error, resVars, hsInput,
                   attempt, resultsAtSubmit>>
    /\ UNCHANGED auxVars

\* The promise of a direct call settled and its caller is done with it.
DirectSettled ==
    /\ hsPc = "idle"
    /\ gdPc \in {"resolved", "rejected"}
    /\ CallOver
    /\ UNCHANGED <<storeVars, hsVars>>
    /\ UNCHANGED auxVars

\* ------------------------------------------------- two overlapping calls
\* The state every step of the second call leaves alone: the store, the
\* form, the first call with its locals and response, and the video
\* component.
firstVars == <<storeVars, hsVars, gdVars, netVars, histVars>>

\* Two callers call generateDesign in the same task: both calls validate
\* their input and reach  await fetch(...)  before any response arrives.
OverlappingCalls ==
    /\ hsPc = "idle" /\ gdPc = "idle" /\ second.pc = "off"
    /\ fetchCalls = 0
    /\ gdInput' = SampleInput
    /\ gdOnProgress' = "record"
    /\ gdPc' = "fetch"
    /\ gdResult' = Null
    /\ gdError' = Null
    /\ fetchCalls' = fetchCalls + 2
    /\ second' = [NoSecond EXCEPT !.pc = "fetch"]
    /\ UNCHANGED <<storeVars, hsVars, gdLocals, script, wire, pos, ended,
                   histVars, video>>

\* The fetch of the second call rejects, or its response is not ok or has
\* no body.
SecondFetchFails ==
    /\ second.pc = "fetch"
    /\ \E e \in {ErrNetwork, ErrHttp, ErrNoBody} :
          second' = [second EXCEPT !.pc = "rejected", !.gdError = Some(e)]
    /\ UNCHANGED <<firstVars, video>>

\* The second call gets its response: its own reader, decoder, buffer and
\* finalResult.
SecondFetchStreams ==
    /\ second.pc = "fetch"
    /\ \E sc \in RetryScripts :
          second' = [second EXCEPT !.pc = "read", !.script = sc,
                                   !.wire = WireOf(sc), !.pos = 0,
                                   !.buffer = <<>>, !.decoderPending = <<>>,
                                   !.lines = <<>>, !.finalResult = Null]
    /\ UNCHANGED <<firstVars, video>>

\* One buffer for all calls: the second call appends to the buffer of the
\* first.
SharedBuffer == buffer

\* let buffer = '' is a local of the call: the second call has its own.
SecondBuffer == second.buffer

\* reader.read() of the second call delivers a chunk.
SecondReadChunk ==
    /\ second.pc = "read"
    /\ second.pos < Len(second.wire)
    /\ \E n \in ChunkSizes(Len(second.wire) - second.pos) :
       \E d \in {DecodeStream(second.decoderPending,
                              SubSeq(second.wire, second.pos + 1, second.pos + n))} :
       \E segs \in {SplitLines(SecondBuffer \o d.text)} :
       \E complete \in {CompleteLines(segs)} :
          second' = [second EXCEPT
                       !.pos = second.pos + n,
                       !.decoderPending = d.pending,
                       !.buffer = KeepFragment(segs),
                       !.lines = complete,
                       !.yielded = second.yielded \o complete,
                       !.pc = IF complete = <<>> THEN "read" ELSE "lines"]
    /\ UNCHANGED <<firstVars, video>>

\* reader.read() of the second call rejects.
SecondReadFails ==
    /\ second.pc = "read"
    /\ second' = [second EXCEPT !.pc = "rejected",
                                !.gdError = Some(ErrNetwork)]
    /\ UNCHANGED <<firstVars, video>>

\* One iteration of the for loop of the second call, whose callback
\* returns.
SecondProcessLine ==
    /\ second.pc = "lines"
    /\ LET line == Head(second.lines)
           kind == LineKind(line)
       IN second' = [second EXCEPT
                       !.lines = Tail(second.lines),
                       !.finalResult = IF kind = "capture"
                                       THEN Some(LineData(line))
                                       ELSE second.finalResult,
                       !.callbacks = IF kind = "progress"
                                     THEN Append(second.callbacks,
                                                 ProgressOf(LineData(line)))
                                     ELSE second.callbacks,
                       !.pc = IF Tail(second.lines) = <<>>
                              THEN "read" ELSE "lines"]
    /\ UNCHANGED <<firstVars, video>>

\* reader.read() of the second call reports done.
SecondEndOfStream ==
    /\ second.pc = "read"
    /\ second.pos = Len(second.wire)
    /\ IF second.finalResult = Null
       THEN second' = [second EXCEPT !.pc = "rejected", !.ended = TRUE,
                                     !.gdError = Some(ErrNoResult)]
       ELSE \E token \in RandomTokens :
            \E r \in {Transform(second.finalResult[1], SampleInput, token)} :
               IF Has(r, "thrown")
               THEN second' = [second EXCEPT !.pc = "rejected", !.ended = TRUE,
                                             !.gdError = Some(r.thrown)]
               ELSE second' = [second EXCEPT !.pc = "resolved", !.ended = TRUE,
                                             !.gdResult = Some(r)]
    /\ UNCHANGED <<firstVars, video>>

SecondSteps ==
    \/ SecondFetchFails \/ SecondFetchStreams
    \/ SecondReadChunk \/ SecondReadFails
    \/ SecondProcessLine \/ SecondEndOfStream

\* ------------------------------------------------- the video component
\* The frames of the video server.
\*   V1  data: {"status":"processing","message":"a"}
\*   VC  data: {"status":"completed","message":"<e-acute>"}
\*   VE  data: {"status":"error","message":"a"}
\*   VN  data: null
VideoFrameKinds == {"V1", "VC", "VE", "VN"}

VideoFrameBytes(k) ==
    CASE k = "V1" -> DataPrefix \o <<"{", "stP", MsgOpen, "a", "}">>
      [] k = "VC" -> DataPrefix \o <<"{", "stC", MsgOpen, LeadByte, ContByte, "}">>
      [] k = "VE" -> DataPrefix \o <<"{", "stE", MsgOpen, "a", "}">>
      [] k = "VN" -> DataPrefix \o <<"null">>

RECURSIVE VideoWireFrom(_, _, _)
VideoWireFrom(frames, terminated, i) ==
    IF i > Len(frames) THEN <<>>
    ELSE VideoFrameBytes(frames[i])
         \o (IF i < Len(frames) \/ terminated THEN <<LF>> ELSE <<>>)
         \o VideoWireFrom(frames, terminated, i + 1)

VideoWireOf(sc) == VideoWireFrom(sc.frames, sc.terminated, 1)

VideoScripts ==
    { [frames |-> f, terminated |-> t] :
        f \in UNION { [1..k -> VideoFrameKinds] : k \in 0..VideoFrames },
        t \in BOOLEAN }

\* new TextDecoder().decode(value): each chunk is decoded on its own; a
\* character cut by the end of the chunk decodes to U+FFFD.
DecodeChunk(bytes) ==
    LET r == DecodeFrom(<<>>, bytes, 1, <<>>)
    IN IF r.pending = <<>> THEN r.text ELSE Append(r.text, Replacement)

\* data.status === 'completed' || data.status === 'error'
VideoTerminal(data) ==
    Has(data, "status") /\ data.status \in {"completed", "error"}

\* for (const line of lines) over the segments of one chunk, the fragments
\* at its ends included: setProgress(data) for every frame that parses; on a
\* terminal frame setIsGenerating(false), setError(data.message) if its
\* status is 'error', and return.  JSON.parse failing, and data.status of
\* null, throw into the empty catch.
RECURSIVE VideoLines(_, _, _)
VideoLines(ls, i, v) ==
    IF i > Len(ls) THEN v
    ELSE IF ~StartsWith(ls[i], DataPrefix) THEN VideoLines(ls, i + 1, v)
    ELSE LET p == JSONParse(Slice(ls[i], Len(DataPrefix))) IN
         IF ~p.ok THEN VideoLines(ls, i + 1, v)
         ELSE IF p.value = JsonNull
              THEN VideoLines(ls, i + 1, [v EXCEPT !.progress = Null])
         ELSE IF VideoTerminal(p.value)
              THEN [v EXCEPT !.progress = Some(p.value),
                             !.isGenerating = FALSE,
                             !.error = IF p.value.status = "error"
                                       THEN IF Has(p.value, "message")
                                            THEN Some(p.value.message)
                                            ELSE Null
                                       ELSE @,
                             !.pc = "idle"]
              ELSE VideoLines(ls, i + 1, [v EXCEPT !.progress = Some(p.value)])

\* catch (err): setError(err.message), setIsGenerating(false)
VideoCatch(message) ==
    video' = [video EXCEPT !.error = Some(<<message>>),
                           !.isGenerating = FALSE,
                           !.pc = "idle"]

\* The click on 'Generate with Progress', a button disabled while
\* isGenerating: the four setters, up to  await fetch(imageUrl).
VideoClick ==
    /\ video.pc = "idle"
    /\ ~video.isGenerating
    /\ video' = [NoVideo EXCEPT !.pc = "image", !.handler = "stream",
                                !.isGenerating = TRUE]
    /\ UNCHANGED <<firstVars, second>>

\* fetch(imageUrl) or response.blob() rejects.
VideoImageFails ==
    /\ video.pc \in {"image", "blob"}
    /\ VideoCatch(ErrNetwork)
    /\ UNCHANGED <<firstVars, second>>

\* fetch(imageUrl) resolves:  await response.blob().
VideoImageArrives ==
    /\ video.pc = "image"
    /\ video' = [video EXCEPT !.pc = "blob"]
    /\ UNCHANGED <<firstVars, second>>

\* The image is read: the form data, and  await fetch(.../generate/stream).
VideoBlobRead ==
    /\ video.pc = "blob"
    /\ video' = [video EXCEPT !.pc = "request"]
    /\ UNCHANGED <<firstVars, second>>

ErrVideoServer == "Server error: 500"
ErrVideoNoReader == "Unable to read response stream"

\* The request rejects, or its response is not ok or has no body.
VideoRequestFails ==
    /\ video.pc = "request"
    /\ \E e \in {ErrNetwork, ErrVideoServer, ErrVideoNoReader} : VideoCatch(e)
    /\ UNCHANGED <<firstVars, second>>

\* The response is ok and has a body: the reader, and the first read.
VideoStreams ==
    /\ video.pc = "request"
    /\ \E sc \in VideoScripts :
          video' = [video EXCEPT !.pc = "read", !.script = sc,
                                 !.wire = VideoWireOf(sc), !.pos = 0]
    /\ UNCHANGED <<firstVars, second>>

\* reader.read() delivers a chunk: decode, split, and the for loop.
VideoReadChunk ==
    /\ video.pc = "read"
    /\ video.pos < Len(video.wire)
    /\ \E n \in ChunkSizes(Len(video.wire) - video.pos) :
          video' = VideoLines(
                       SplitLines(DecodeChunk(
                           SubSeq(video.wire, video.pos + 1, video.pos + n))),
                       1, [video EXCEPT !.pos = video.pos + n])
    /\ UNCHANGED <<firstVars, second>>

\* reader.read() rejects.
VideoReadFails ==
    /\ video.pc = "read"
    /\ VideoCatch(ErrNetwork)
    /\ UNCHANGED <<firstVars, second>>

\* reader.read() reports done: break, and the handler returns.
VideoDone ==
    /\ video.pc = "read"
    /\ video.pos = Len(video.wire)
    /\ video' = [video EXCEPT !.pc = "idle"]
    /\ UNCHANGED <<firstVars, second>>

VideoSteps ==
    \/ VideoImageFails \/ VideoImageArrives \/ VideoBlobRead
    \/ VideoRequestFails \/ VideoStreams
    \/ VideoReadChunk \/ VideoReadFails \/ VideoDone

\* handleGenerateVideo, the handler of the button 'Generate Video'.
\* catch (err): setError(err.message), then finally: setIsGenerating(false).
GvCatch(message) ==
    video' = [video EXCEPT !.error = Some(<<message>>),
                           !.isGenerating = FALSE,
                           !.pc = "idle"]

\* The click on 'Generate Video', a button disabled while isGenerating: the
\* four setters, up to  await fetch(imageUrl).
GvClick ==
    /\ video.pc = "idle"
    /\ ~video.isGenerating
    /\ video' = [NoVideo EXCEPT !.pc = "gvImage", !.handler = "plain",
                                !.isGenerating = TRUE]
    /\ UNCHANGED <<firstVars, second>>

\* fetch(imageUrl) or response.blob() rejects.
GvImageFails ==
    /\ video.pc \in {"gvImage", "gvBlob"}
    /\ GvCatch(ErrNetwork)
    /\ UNCHANGED <<firstVars, second>>

\* fetch(imageUrl) resolves:  await response.blob().
GvImageArrives ==
    /\ video.pc = "gvImage"
    /\ video' = [video EXCEPT !.pc = "gvBlob"]
    /\ UNCHANGED <<firstVars, second>>

\* The image is read: the form data, and  await fetch(.../generate).
GvBlobRead ==
    /\ video.pc = "gvBlob"
    /\ video' = [video EXCEPT !.pc = "gvRequest"]
    /\ UNCHANGED <<firstVars, second>>

\* The request rejects, or its response is not ok.
GvRequestFails ==
    /\ video.pc = "gvRequest"
    /\ \E e \in {ErrNetwork, ErrVideoServer} : GvCatch(e)
    /\ UNCHANGED <<firstVars, second>>

\* The response is ok:  await videoResponse.json().
GvResponds ==
    /\ video.pc = "gvRequest"
    /\ video' = [video EXCEPT !.pc = "gvJson"]
    /\ UNCHANGED <<firstVars, second>>

ErrVideoJson == "Unexpected end of JSON input"
ErrVideoFailed == "Video generation failed"

\* videoResponse.json() rejects: the body is not JSON.
GvJsonFails ==
    /\ video.pc = "gvJson"
    /\ GvCatch(ErrVideoJson)
    /\ UNCHANGED <<firstVars, second>>

\* The answers of the video server to /generate.
VideoAnswers ==
    { [status |-> "success", result |-> "tour.mp4"],
      [status |-> "failed", message |-> "quota"],
      [status |-> "failed", message |-> ""],
      [status |-> "failed"] }

\* The answer is read: on success the completed progress is shown,
\* otherwise result.message || 'Video generation failed' is thrown and
\* caught; finally setIsGenerating(false).
GvAnswer ==
    /\ video.pc = "gvJson"
    /\ \E result \in VideoAnswers :
          IF result.status = "success"
          THEN video' = [video EXCEPT
                           !.progress =
                               Some([status   |-> "completed",
                                     message  |-> <<"Video generation completed!">>,
                                     progress |-> 100,
                                     result   |-> result.result]),
                           !.isGenerating = FALSE,
                           !.pc = "idle"]
          ELSE GvCatch(IF Has(result, "message") /\ result.message # ""
                       THEN result.message ELSE ErrVideoFailed)
    /\ UNCHANGED <<firstVars, second>>

GvSteps ==
    \/ GvImageFails \/ GvImageArrives \/ GvBlobRead
    \/ GvRequestFails \/ GvResponds \/ GvJsonFails \/ GvAnswer

\* ---------------------------------------------------------- specifications
GenerateDesignSteps ==
    \/ FetchRejects \/ FetchNotOk \/ FetchNoBody \/ FetchStreams
    \/ ReadChunk \/ ReadFails \/ ProcessLine \/ EndOfStream

HandleSubmitSteps ==
    \/ HsSetError \/ HsSetProgress \/ HsCall
    \/ HsAddResult \/ HsCatchError \/ HsCatchGenerating \/ HsCatchProgress

\* The form: the user picks images and a style and submits.
Next ==
    \/ \E imgs \in ImageLists : SetImages(imgs)
    \/ \E s \in Styles : SetStyle(s)
    \/ HandleSubmit
    \/ HandleSubmitSteps
    \/ GenerateDesignSteps

Spec == Init /\ [][Next]_vars

\* The form, with every started step of an attempt eventually taken: the
\* request and each read settle, and the microtasks of handleSubmit run.
FairSpec == Spec /\ WF_vars(HandleSubmitSteps \/ GenerateDesignSteps)

\* generateDesign called directly.
ClientNext == DirectCall \/ GenerateDesignSteps

ClientSpec == Init /\ [][ClientNext]_vars

\* generateDesign called directly on responses chosen for their payloads.
PayloadNext ==
    \/ DirectCall
    \/ FetchRejects \/ FetchNotOk \/ FetchNoBody \/ PayloadStreams
    \/ ReadChunk \/ ReadFails \/ ProcessLine \/ EndOfStream

PayloadSpec == Init /\ [][PayloadNext]_vars

\* generateDesign called directly with a callback that throws.
CallbackNext == ThrowingCall \/ GenerateDesignSteps

CallbackSpec == Init /\ [][CallbackNext]_vars

\* Two calls of generateDesign in flight together, their steps interleaved
\* in every order.
ConcurrentNext == OverlappingCalls \/ GenerateDesignSteps \/ SecondSteps

ConcurrentSpec == Init /\ [][ConcurrentNext]_vars

\* The video component: the user clicks one of the two buttons, and every
\* started step of a handler is eventually taken (each request and each
\* read settles).
VideoNext == VideoClick \/ VideoSteps \/ GvClick \/ GvSteps

VideoSpec == Init /\ [][VideoNext]_vars

VideoFairSpec == VideoSpec /\ WF_vars(VideoSteps \/ GvSteps)

\* The form and a direct caller while the backend gives no body: every
\* request fails before a chunk is read.
OfflineNext ==
    \/ \E imgs \in ImageLists : SetImages(imgs)
    \/ \E s \in Styles : SetStyle(s)
    \/ HandleSubmit
    \/ HsSetError \/ HsSetProgress \/ HsCall
    \/ HsCatchError \/ HsCatchGenerating \/ HsCatchProgress
    \/ DirectCall \/ DirectSettled
    \/ FetchRejects \/ FetchNotOk \/ FetchNoBody

OfflineSpec == Init /\ [][OfflineNext]_vars

\* The store alone: its actions called in any order.
StoreNext ==
    \/ \E imgs \in ImageLists : SetImages(imgs)
    \/ \E b \in Budgets : SetBudget(b)
    \/ \E s \in Styles : SetStyle(s)
    \/ \E n \in NotesTexts : SetNotes(n)
    \/ \E ps \in ProductChoices : SetSelectedProducts(ps)
    \/ \E b \in BOOLEAN : SetIsGenerating(b)
    \/ \E e \in ErrorValues : SetError(e)
    \/ \E p \in ProgressValues : SetProgress(p)
    \/ \E r \in StoreResults : CallAddResult(r)
    \/ \E r \in StoreResults : SetCurrentResult(r.id)
    \/ Reset

StoreSpec == Init /\ [][StoreNext]_vars

\* The older store alone.
LegacyNext ==
    \/ \E imgs \in ImageLists : SetImages(imgs)
    \/ \E s \in Styles : SetStyle(s)
    \/ \E b \in BOOLEAN : SetIsGenerating(b)
    \/ \E e \in ErrorValues : SetError(e)
    \/ \E r \in StoreResults : LegacyAddResult(r)
    \/ \E r \in StoreResults : SetCurrentResult(r.id)
    \/ LegacyReset

LegacyStoreSpec == LegacyInit /\ [][LegacyNext]_vars

\* The classification alone: one yielded line, made of up to MaxMembers
\* members or spaces, or of the text null, is about to be processed by a direct call
\* with or without a callback.
ClassifyTokens == {"stP", "stC", "ok", "no", "err", "err0", " "}

ClassifyLines ==
    { DataPrefix \o <<"{">> \o ms \o <<"}">> :
        ms \in UNION { [1..k -> ClassifyTokens] : k \in 0..MaxMembers } }
    \cup { DataPrefix \o <<"null">>, DataPrefix \o <<" ", "null", " ">>,
           DataPrefix \o <<" ", "{", "stC", "ok", "}", " ">> }

ClassifyInit ==
    /\ images = <<>>
    /\ budget = 5000
    /\ style = "modern"
    /\ notes = ""
    /\ selectedProducts = <<>>
    /\ isGenerating = FALSE
    /\ error = Null
    /\ currentProgress = Null
    /\ results = <<>>
    /\ currentResultId = Null
    /\ lastCall = "create"
    /\ hsPc = "idle"
    /\ hsInput = NoInput
    /\ attempt = 0
    /\ resultsAtSubmit = 0
    /\ gdPc = "lines"
    /\ gdInput = SampleInput
    /\ gdOnProgress \in {"record", "none"}
    /\ buffer = <<>>
    /\ decoderPending = <<>>
    /\ \E l \in ClassifyLines : lines = <<l>> /\ yielded = <<l>>
    /\ finalResult = Null
    /\ gdResult = Null
    /\ gdError = Null
    /\ script = NoScript
    /\ wire = <<>>
    /\ pos = 0
    /\ ended = FALSE
    /\ fetchCalls = 1
    /\ callbacks = <<>>
    /\ second = NoSecond
    /\ video = NoVideo

ClassifySpec == ClassifyInit /\ [][ProcessLine \/ EndOfStream]_vars

\* The transformation alone: the stream of a direct call is at its end with
\* a payload captured.
TransformInit ==
    /\ images = <<>>
    /\ budget = 5000
    /\ style = "modern"
    /\ notes = ""
    /\ selectedProducts = <<>>
    /\ isGenerating = FALSE
    /\ error = Null
    /\ currentProgress = Null
    /\ results = <<>>
    /\ currentResultId = Null
    /\ lastCall = "create"
    /\ hsPc = "idle"
    /\ hsInput = NoInput
    /\ attempt = 0
    /\ resultsAtSubmit = 0
    /\ gdPc = "read"
    /\ gdInput \in TransformInputs
    /\ gdOnProgress = "record"
    /\ buffer = <<>>
    /\ decoderPending = <<>>
    /\ lines = <<>>
    /\ finalResult \in { Some(p) : p \in TransformPayloads }
    /\ gdResult = Null
    /\ gdError = Null
    /\ script = NoScript
    /\ wire = <<>>
    /\ pos = 0
    /\ ended = FALSE
    /\ fetchCalls = 1
    /\ callbacks = <<>>
    /\ second = NoSecond
    /\ video = NoVideo
    /\ yielded = <<>>

TransformSpec == TransformInit /\ [][EndOfStream]_vars

\* ------------------------------------------------- what the server sent
\* The frames of a response that are followed by a newline.
CompleteFrames(sc) ==
    IF sc.terminated \/ sc.frames = <<>> THEN sc.frames ELSE Front(sc.frames)

SuccessKinds == {"S1", "S2", "N1", "N2"}

\* The success frames whose payload the transformation throws on.
ThrowingKinds == {"N1", "N2"}

\* The last terminal-success frame of a response that has one.
LastSuccess(sc) ==
    LET fs == SelectSeq(CompleteFrames(sc), LAMBDA k : k \in SuccessKinds)
    IN fs[Len(fs)]
ProgressKinds == {"P1", "P2"}

CountOf(seq, kinds) == Cardinality({ i \in DOMAIN seq : seq[i] \in kinds })

SuccessFrames == CountOf(CompleteFrames(script), SuccessKinds)

ErrUpstream == "upstream timeout"

\* The callback argument each progress frame of the server stands for.
ExpectedProgress(k) ==
    IF k = "P1"
    THEN [status |-> "processing", message |-> <<"a">>,
          data |-> [status |-> "processing", message |-> <<"a">>]]
    ELSE [status |-> "completed", message |-> <<EAcute>>,
          data |-> [status |-> "completed", message |-> <<EAcute>>]]

\* N progress frames, then one terminal-success frame, all terminated.
ProgressThenSuccess(sc) ==
    /\ sc.terminated
    /\ Len(sc.frames) >= 1
    /\ sc.frames[Len(sc.frames)] \in SuccessKinds
    /\ \A i \in 1..(Len(sc.frames) - 1) : sc.frames[i] \in ProgressKinds

ExpectedCallbacks(sc) ==
    [i \in 1..(Len(sc.frames) - 1) |-> ExpectedProgress(sc.frames[i])]

IsPrefix(a, b) == Len(a) <= Len(b) /\ a = SubSeq(b, 1, Len(a))

\* ------------------------------------------------------------------ C1
\* C1: whenever the response held a terminal-error frame and the attempt has
\* settled, it has rejected with that frame's error value as its message.
C1_RemoteErrorRejects ==
    ( /\ gdPc \in {"resolved", "rejected"}
      /\ \E i \in DOMAIN CompleteFrames(script) : CompleteFrames(script)[i] = "E1" )
    => (gdPc = "rejected" /\ gdError = Some(ErrUpstream))

\* ------------------------------------------------------------------ C2
\* C2: for a response of N progress frames followed by a terminal-success
\* frame, the callbacks made so far are at every moment the first ones of
\* the N expected, in order, and once the stream has ended the call has
\* resolved with exactly the N of them made.
C2_ProgressInOrder ==
    (gdOnProgress # "none" /\ ProgressThenSuccess(script))
    => /\ IsPrefix(callbacks, ExpectedCallbacks(script))
       /\ ended => (gdPc = "resolved" /\ callbacks = ExpectedCallbacks(script))

C2_Witness ==
    /\ gdPc = "resolved"
    /\ script.frames = <<"P1", "P2", "S1">>
    /\ Len(callbacks) = 2

\* ------------------------------------------------------------------ C3
\* What the lines of a text make the loop do, computed on the whole text.
RECURSIVE RefCallbacks(_, _)
RefCallbacks(ls, i) ==
    IF i > Len(ls) THEN <<>>
    ELSE (IF LineKind(ls[i]) = "progress"
          THEN <<ProgressOf(LineData(ls[i]))>> ELSE <<>>)
         \o RefCallbacks(ls, i + 1)

RECURSIVE RefFinal(_, _)
RefFinal(ls, i) ==
    IF i = 0 THEN Null
    ELSE IF LineKind(ls[i]) = "capture" THEN Some(LineData(ls[i]))
    ELSE RefFinal(ls, i - 1)

\* C3: however the bytes read so far were cut into chunks, the lines yielded
\* are the complete lines of the text those bytes decode to as a whole, the
\* buffer is its last fragment, and between chunks the callbacks made and
\* the payload captured are those of these lines.
C3_ChunkIndependence ==
    (gdPc \in {"read", "lines", "resolved"} \/ ended)
    => LET whole == DecodeFrom(<<>>, SubSeq(wire, 1, pos), 1, <<>>).text
           segs  == SplitLines(whole)
       IN /\ yielded = Front(segs)
          /\ buffer = Last(segs)
          /\ (gdPc # "lines") =>
                /\ finalResult = RefFinal(Front(segs), Len(segs) - 1)
                /\ callbacks = IF gdOnProgress = "none" THEN <<>>
                               ELSE RefCallbacks(Front(segs), 1)

\* A chunk ended inside a character of a later line.
C3_Witness ==
    /\ gdPc = "read"
    /\ decoderPending # <<>>
    /\ Len(yielded) >= 1
    /\ buffer # <<>>

\* ------------------------------------------------------------------ C4
\* C4: when the response holds no terminal-success frame, no result is ever
\* produced, and once the stream has ended the call has rejected with the
\* no-result error.
C4_NoResultRejects ==
    (gdPc # "idle" /\ SuccessFrames = 0)
    => /\ gdResult = Null
       /\ gdPc # "resolved"
       /\ ended => (gdPc = "rejected" /\ gdError = Some(ErrNoResult))

C4_Witness ==
    /\ ended
    /\ script.frames = <<"P1", "E1">>
    /\ script.terminated
    /\ gdError = Some(ErrNoResult)

\* ------------------------------------------------------------------ C5
\* C5: a call of generateDesign without an image rejects with the
\* validation error and calls fetch not; every request made carries an
\* image; and a submit of the form with no image only records the form's
\* validation error.
C5_NoRequestWithoutImage ==
    /\ [][ (gdPc = "idle" /\ gdPc' # "idle" /\ NoImages(gdInput'))
             => /\ gdPc' = "rejected"
                /\ gdError' = Some(ErrNoImage)
                /\ fetchCalls' = fetchCalls ]_vars
    /\ [][ (fetchCalls' # fetchCalls) => ~NoImages(gdInput') ]_vars
    /\ [][ (hsPc = "idle" /\ hsPc' # "idle") => Len(images) > 0 ]_vars
    /\ [][ ( /\ hsPc = "idle" /\ gdPc = "idle" /\ Len(images) = 0
             /\ images' = images /\ style' = style /\ gdPc' = "idle" )
             => /\ error' = Some(ErrFormNoImage)
                /\ fetchCalls' = fetchCalls
                /\ hsPc' = "idle"
                /\ isGenerating' = isGenerating ]_vars

C5_Witness ==
    /\ error = Some(ErrFormNoImage)
    /\ gdPc = "rejected"
    /\ gdError = Some(ErrNoImage)
    /\ ~Has(gdInput, "images")
    /\ fetchCalls = 0

\* ------------------------------------------------------------------ C6
\* C6: while the error or the result of the current attempt is recorded in
\* the store, isGenerating is false and currentProgress is null.
C6_NoFlagWithOutcome ==
    (hsPc \in {"catchGenerating", "catchProgress"} \/ Len(results) > resultsAtSubmit)
    => (isGenerating = FALSE /\ currentProgress = Null)

\* ------------------------------------------------------------------ C7
\* C7: once handleSubmit awaits generateDesign, whatever the request and the
\* stream do (the call rejecting included), handleSubmit comes to its end
\* with isGenerating false.
C7_FlagCleared ==
    (hsPc = "await") ~> (hsPc = "idle" /\ isGenerating = FALSE)

C7_Witness ==
    /\ hsPc = "catchProgress"
    /\ isGenerating = FALSE
    /\ error = Some(ErrNoResult)

\* ------------------------------------------------------------------ C8
\* C8 as claimed: once the stream has ended, the call has resolved if and
\* only if the response held exactly one terminal-success frame.
C8_ExactlyOne ==
    ended => ((gdPc = "resolved") <=> (SuccessFrames = 1))

\* C8 as amended: the call resolves only at the end of the stream, and then
\* if and only if the response held at least one terminal-success frame and
\* the transformation takes the payload of the last of them; a stream that
\* has ended otherwise has rejected the call: without a success frame for
\* want of a result, with a last payload whose product_recommendations is a
\* string or holds a null entry with the TypeError of the transformation.
C8_LastSuccessTransforms ==
    /\ (gdPc = "resolved") => ended
    /\ ended =>
          /\ (gdPc = "resolved")
               <=> (SuccessFrames >= 1 /\ LastSuccess(script) \notin ThrowingKinds)
          /\ gdPc \in {"resolved", "rejected"}
          /\ (SuccessFrames = 0) => gdError = Some(ErrNoResult)
          /\ (SuccessFrames >= 1 /\ LastSuccess(script) = "N1")
               => gdError = Some(ErrNullProduct)
          /\ (SuccessFrames >= 1 /\ LastSuccess(script) = "N2")
               => gdError = Some(ErrNotArray)

\* The call resolved on the second of two success frames, the first of
\* which carried a payload the transformation throws on.
C8_Witness ==
    /\ gdPc = "resolved"
    /\ SuccessFrames = 2
    /\ script.frames[1] \in ThrowingKinds

\* ------------------------------------------------------------------ C9
\* C9: since the last accepted submit the history has grown by at most one
\* entry, and by none while that attempt is still running.
C9_OneResultPerAttempt ==
    /\ Len(results) <= resultsAtSubmit + 1
    /\ (hsPc # "idle") => (Len(results) = resultsAtSubmit)

C9_Witness ==
    /\ hsPc = "idle"
    /\ SuccessFrames = 2
    /\ Len(results) = resultsAtSubmit + 1

\* ----------------------------------------------------------------- C10
IdStrings == <<"1", "2", "3", "4", "5">>

\* C10: the result of a payload with K recommended products has K products,
\* in payload order, with ids "1".."K", and the style and budget of the
\* request.
C10_Transform ==
    (gdPc = "resolved")
    => LET r    == gdResult[1]
           pay  == finalResult[1]
           recs == IF Has(pay, "designer_data")
                      /\ Has(pay.designer_data, "product_recommendations")
                   THEN pay.designer_data.product_recommendations
                   ELSE <<>>
       IN /\ Len(r.products) = Len(recs)
          /\ \A i \in 1..Len(recs) :
                /\ r.products[i].id = IdStrings[i]
                /\ r.products[i].title =
                      (IF Has(recs[i], "title") THEN recs[i].title
                       ELSE "Unknown Product")
          /\ r.style = gdInput.style
          /\ r.budget = gdInput.budget

C10_Witness ==
    /\ gdPc = "resolved"
    /\ Len(gdResult[1].products) = 2
    /\ Has(finalResult[1], "style")
    /\ finalResult[1].style # gdResult[1].style
    /\ finalResult[1].budget # gdResult[1].budget
    /\ gdResult[1].products[1].title = "Unknown Product"
    /\ gdResult[1].products[2].title = "Lamp"

\* ----------------------------------------------------------------- C11
\* C11: a step that is a call of reset leaves the form inputs at their
\* initial values and error and currentProgress null, and leaves results and
\* currentResultId as they were: no reset shrinks the history.
C11_ResetKeepsHistory ==
    [][ (lastCall' = "reset")
        => /\ images' = <<>>
           /\ budget' = 5000
           /\ style' = "modern"
           /\ notes' = ""
           /\ selectedProducts' = <<>>
           /\ error' = Null
           /\ currentProgress' = Null
           /\ results' = results
           /\ currentResultId' = currentResultId ]_vars

C11_Witness ==
    /\ lastCall = "reset"
    /\ Len(results) = 2
    /\ currentResultId = Some(results[2].id)
    /\ images = <<>>
    /\ error = Null

\* ----------------------------------------------------------------- C12
\* C12: every step that changes results is a commit in one step: the new
\* result is put in front of the results there were, currentResultId becomes
\* its id, and error is null, currentProgress is null and isGenerating is
\* false after the step.
C12_CommitInOneStep ==
    [][ (results' # results)
        => /\ Len(results') = Len(results) + 1
           /\ Tail(results') = results
           /\ currentResultId' = Some(Head(results').id)
           /\ error' = Null
           /\ currentProgress' = Null
           /\ isGenerating' = FALSE ]_vars

\* ----------------------------------------------------------------- C13
\* C13: the step that ends the catch path of handleSubmit leaves the message
\* generateDesign rejected with in error, currentProgress null and
\* isGenerating false; and no step of an attempt other than the commit of a
\* resolved call changes results or currentResultId, so a rejected attempt
\* leaves them as they were before it.
C13_RejectedAttempt ==
    /\ [][ (hsPc = "catchProgress" /\ hsPc' = "idle")
            => /\ gdPc = "rejected"
               /\ gdError # Null
               /\ error' = gdError
               /\ currentProgress' = Null
               /\ isGenerating' = FALSE
               /\ Len(results') = resultsAtSubmit ]_vars
    /\ [][ ~(hsPc = "await" /\ gdPc = "resolved")
            => (results' = results /\ currentResultId' = currentResultId) ]_vars

\* A second attempt has failed on the HTTP status; the result of the first
\* is still the only one and still the current one.
C13_Witness ==
    /\ hsPc = "idle"
    /\ lastCall = "setProgress"
    /\ error = Some(ErrHttp)
    /\ isGenerating = FALSE
    /\ currentProgress = Null
    /\ Len(results) = 1
    /\ currentResultId = Some(results[1].id)

\* ----------------------------------------------------------------- C14
\* Lines that are not well-formed event frames: the blank line (no prefix)
\* and the frame whose JSON is cut short.
BadKinds == {"B", "X"}

IsGoodFrame(k) == k \notin BadKinds

\* The complete lines of the response with its bad lines taken out.
CleanLines(sc) ==
    LET clean == [frames |-> SelectSeq(CompleteFrames(sc), IsGoodFrame),
                  terminated |-> TRUE]
    IN Front(SplitLines(DecodeFrom(<<>>, WireOf(clean), 1, <<>>).text))

\* Lines without the prefix that are not blank: a comment, and 'data:'
\* without its space.
CommentLines == { <<":", " ", "a">>, <<"d", "a", "t", "a", ":">> }

\* C14: a line without the prefix is skipped, and at the end of a stream the
\* callbacks made, the payload captured and the outcome of the call are
\* those of the same stream without its bad lines; a bad line never makes
\* the call reject on its own.
C14_BadLinesIgnored ==
    /\ \A l \in CommentLines \cup {<<>>} : LineKind(l) = "skip"
    /\ ended =>
          LET ls == CleanLines(script) IN
          /\ callbacks = IF gdOnProgress = "none" THEN <<>>
                         ELSE RefCallbacks(ls, 1)
          /\ finalResult = RefFinal(ls, Len(ls))
          /\ (gdPc = "resolved") <=> (RefFinal(ls, Len(ls)) # Null)
          /\ (gdPc = "rejected") => (gdError = Some(ErrNoResult))

C14_Witness ==
    /\ ended
    /\ gdPc = "resolved"
    /\ script = [frames |-> <<"X", "P1", "S1">>, terminated |-> TRUE]
    /\ callbacks = <<ExpectedProgress("P1")>>

\* ----------------------------------------------------------------- C15
\* C15: a call of setProgress leaves results and currentResultId as they
\* were, whatever the store held and whatever was called before.
C15_ProgressKeepsResults ==
    [][ (lastCall' = "setProgress")
        => (results' = results /\ currentResultId' = currentResultId) ]_vars

\* A snapshot was stored while the history held two results.
C15_Witness ==
    /\ lastCall = "setProgress"
    /\ currentProgress = Some(StartingProgress)
    /\ Len(results) = 2
    /\ currentResultId # Null

\* ----------------------------------------------------------------- C16
TransportErrors == {Some(ErrHttp), Some(ErrNoBody)}

\* C16: a call that has failed on the HTTP status or on the missing body
\* has rejected with no chunk read, no line yielded, no callback made and no
\* result produced; the snapshot in the store is still the starting one
\* until the catch of handleSubmit, which records the message in error.
C16_TransportErrors ==
    (gdError \in TransportErrors)
    => /\ gdPc = "rejected"
       /\ pos = 0 /\ wire = <<>> /\ yielded = <<>>
       /\ callbacks = <<>>
       /\ gdResult = Null
       /\ Len(results) = resultsAtSubmit
       /\ (hsPc \in {"await", "catchGenerating"})
             => currentProgress = Some(StartingProgress)
       /\ (hsPc \in {"catchGenerating", "catchProgress"}) => error = gdError

C16_Witness ==
    /\ hsPc = "catchProgress"
    /\ gdError = Some(ErrNoBody)
    /\ error = Some(ErrNoBody)
    /\ isGenerating = FALSE
    /\ fetchCalls = 1

\* ----------------------------------------------------------------- C17
\* The object a frame of the server parses to.
FrameData(k) == JSONParse(Slice(FrameBytes(k), Len(DataPrefix))).value

\* The first terminal-success frame of a response.
FirstSuccess(sc) ==
    LET fs == SelectSeq(CompleteFrames(sc), LAMBDA k : k \in SuccessKinds)
    IN fs[1]

\* C17: a call that has resolved holds the payload of the first
\* terminal-success frame of the response, and its result is built from it.
C17_FirstSuccessWins ==
    (gdPc = "resolved")
    => /\ finalResult = Some(FrameData(FirstSuccess(script)))
       /\ \E token \in RandomTokens :
             gdResult = Some(Transform(FrameData(FirstSuccess(script)),
                                       gdInput, token))

\* ----------------------------------------------------------------- C18
\* The callbacks the progress frames among frames stand for, in order.
ExpectedOf(frames) ==
    LET ps == SelectSeq(frames, LAMBDA k : k \in ProgressKinds)
    IN [i \in 1..Len(ps) |-> ExpectedProgress(ps[i])]

\* The frames of a response before its first terminal-error frame.
BeforeError(sc) ==
    LET fr == CompleteFrames(sc)
        k  == CHOOSE i \in 1..Len(fr) :
                 fr[i] = "E1" /\ \A j \in 1..(i - 1) : fr[j] # "E1"
    IN SubSeq(fr, 1, k - 1)

\* C18: for a response with a terminal-error frame the callbacks made are
\* among those of the frames before it, a payload is captured only from a
\* frame before it, and the call does not resolve.
C18_ErrorStopsStream ==
    (gdPc # "idle" /\ \E i \in DOMAIN CompleteFrames(script) :
                         CompleteFrames(script)[i] = "E1")
    => /\ IsPrefix(callbacks, ExpectedOf(BeforeError(script)))
       /\ (finalResult # Null)
             => CountOf(BeforeError(script), SuccessKinds) > 0
       /\ gdPc # "resolved"

\* ----------------------------------------------------------------- C19
\* C19: the call resolves only when the stream has been read to its end and
\* every yielded line has been processed; the callbacks made are at every
\* moment the first ones of those of all the progress frames of the
\* response, those after a terminal-success frame included, and at the end
\* of the stream all of them have been made.
C19_DrainsAfterSuccess ==
    /\ (gdPc = "resolved") => (ended /\ pos = Len(wire) /\ lines = <<>>)
    /\ (gdOnProgress # "none")
          => /\ IsPrefix(callbacks, ExpectedOf(CompleteFrames(script)))
             /\ ended => (callbacks = ExpectedOf(CompleteFrames(script)))

C19_Witness ==
    /\ gdPc = "resolved"
    /\ script = [frames |-> <<"S1", "P1", "P2">>, terminated |-> TRUE]
    /\ callbacks = <<ExpectedProgress("P1"), ExpectedProgress("P2")>>

\* ----------------------------------------------------------------- C20
\* The complete lines of a response made of frames, each one terminated.
LinesOf(frames) ==
    Front(SplitLines(DecodeFrom(<<>>,
              WireOf([frames |-> frames, terminated |-> TRUE]), 1, <<>>).text))

\* C20: at the end of a stream whose last frame has no newline after it, the
\* text of that frame is still in the buffer, unparsed, and the lines
\* yielded, the callbacks made, the payload captured and the outcome are
\* those of the response without that frame; without a terminal-success
\* frame before it the call has rejected with the no-result error.
C20_UnterminatedDiscarded ==
    (ended /\ ~script.terminated /\ script.frames # <<>>)
    => LET sent == Front(script.frames)
           ls   == LinesOf(sent)
       IN /\ buffer = DecodeFrom(<<>>, FrameBytes(Last(script.frames)),
                                 1, <<>>).text
          /\ yielded = ls
          /\ callbacks = IF gdOnProgress = "none" THEN <<>> ELSE ExpectedOf(sent)
          /\ finalResult = RefFinal(ls, Len(ls))
          /\ (gdPc = "resolved") <=> (CountOf(sent, SuccessKinds) > 0)
          /\ (gdPc = "rejected") => (gdError = Some(ErrNoResult))

\* The only terminal-success frame of the response was the unterminated one.
C20_Witness ==
    /\ ended
    /\ script = [frames |-> <<"P1", "S1">>, terminated |-> FALSE]
    /\ buffer # <<>>
    /\ gdPc = "rejected"
    /\ gdError = Some(ErrNoResult)

\* ----------------------------------------------------------------- C21
\* What the three classes, by precedence, make of a parsed frame: a
\* terminal-error frame is neither captured nor forwarded, a
\* terminal-success frame is captured and not forwarded, any other frame is
\* forwarded to the callback, if there is one, and not captured.
ClassifiedAs(data) ==
    IF Has(data, "error") /\ data.error # ""
    THEN finalResult = Null /\ callbacks = <<>>
    ELSE IF /\ Has(data, "status") /\ data.status = "completed"
            /\ Has(data, "success") /\ data.success
         THEN finalResult = Some(data) /\ callbacks = <<>>
         ELSE /\ finalResult = Null
              /\ callbacks =
                    IF gdOnProgress = "none" THEN <<>>
                    ELSE << [status  |-> IF Has(data, "status")
                                         THEN data.status ELSE "processing",
                             message |-> <<"Processing...">>,
                             data    |-> data] >>

\* The value the one line of the classification parses to.
ParsedLine == JSONParse(Slice(yielded[1], Len(DataPrefix))).value

\* C21 as claimed: every frame that parses, the text null included, is
\* handled as one of the three classes.
C21_EveryParsedFrame ==
    (gdPc # "lines") => ClassifiedAs(ParsedLine)

\* C21 as amended: every frame that parses to an object is handled as one
\* of the three classes; the frame null is neither captured nor forwarded.
C21_ObjectFrames ==
    (gdPc # "lines")
    => IF ParsedLine = JsonNull
       THEN finalResult = Null /\ callbacks = <<>>
       ELSE ClassifiedAs(ParsedLine)

\* A frame with an error, status completed and success has been processed.
C21_Witness ==
    /\ gdPc = "read"
    /\ gdOnProgress = "record"
    /\ yielded = << DataPrefix \o <<"{", "stC", "ok", "err", "}">> >>
    /\ finalResult = Null
    /\ callbacks = <<>>

\* ----------------------------------------------------------------- C22
\* C22: every step in which the callback of the form is called while
\* handleSubmit awaits leaves currentProgress holding the event of that call,
\* which is the one of the last progress line handled, with isGenerating true
\* before and after and with error, results and currentResultId as they
\* were.
C22_SnapshotReplaced ==
    [][ (hsPc = "await" /\ Len(callbacks') = Len(callbacks) + 1)
        => /\ currentProgress' = Some(Last(callbacks'))
           /\ Last(callbacks') =
                 Last(RefCallbacks(SubSeq(yielded, 1, Len(yielded) - Len(lines')), 1))
           /\ isGenerating /\ isGenerating'
           /\ error' = error
           /\ results' = results
           /\ currentResultId' = currentResultId ]_vars

\* A second, different event has replaced the first one.
C22_Witness ==
    /\ hsPc = "await"
    /\ Len(callbacks) = 2
    /\ callbacks[1] # callbacks[2]
    /\ currentProgress = Some(callbacks[2])
    /\ isGenerating

\* ----------------------------------------------------------------- C23
IsSuffix(a, b) ==
    Len(a) <= Len(b) /\ a = SubSeq(b, Len(b) - Len(a) + 1, Len(b))

\* C23: in every step of the store the results there were are the last
\* entries of the results there are, and a call of addResult makes the
\* history exactly one entry longer.
C23_GrowsAtFront ==
    [][ /\ IsSuffix(results, results')
        /\ (lastCall' = "addResult") => (Len(results') = Len(results) + 1) ]_vars

\* A second, different result was committed in front of the first.
C23_Witness ==
    /\ lastCall = "addResult"
    /\ Len(results) = 2
    /\ results[1] # results[2]
    /\ currentResultId = Some(results[1].id)

\* ----------------------------------------------------------------- C25
\* C25: every step that starts an attempt is taken with isGenerating false
\* and with no attempt of handleSubmit or call of generateDesign under way.
C25_OneAttemptInFlight ==
    [][ (attempt' # attempt)
        => (~isGenerating /\ hsPc = "idle" /\ gdPc = "idle") ]_vars

\* A second attempt is in flight, started after the first one was over.
C25_Witness ==
    /\ attempt = 2
    /\ hsPc = "await"
    /\ gdPc = "read"
    /\ isGenerating

\* ----------------------------------------------------------------- C26
\* C26: the step of handleSubmit that calls fetch is taken with isGenerating
\* true, error null and the starting snapshot in the store, and as long as
\* handleSubmit awaits the call error stays null and isGenerating true.
C26_CleanBeforeFetch ==
    [][ /\ (fetchCalls' # fetchCalls)
           => /\ isGenerating
              /\ error = Null
              /\ currentProgress = Some(StartingProgress)
        /\ (hsPc' = "await") => (error' = Null /\ isGenerating') ]_vars

\* A second attempt, made after one that left no result, awaits its
\* response with error null.
C26_Witness ==
    /\ hsPc = "await"
    /\ gdPc = "read"
    /\ attempt = 2
    /\ resultsAtSubmit = 0
    /\ error = Null

\* ----------------------------------------------------------------- C27
\* C27: a step that is a submit rejected for its empty image list sets error
\* to the message of the form and leaves isGenerating, currentProgress,
\* results, currentResultId and the form inputs as they were; no request is
\* made.
C27_RejectedSubmitFrame ==
    [][ (hsPc = "idle" /\ hsPc' = "idle" /\ Len(images) = 0
                       /\ lastCall' = "setError")
        => /\ error' = Some(ErrFormNoImage)
           /\ isGenerating' = isGenerating
           /\ currentProgress' = currentProgress
           /\ results' = results
           /\ currentResultId' = currentResultId
           /\ UNCHANGED formVars
           /\ fetchCalls' = fetchCalls ]_vars

\* A submit was rejected after an attempt had left a result in the store.
C27_Witness ==
    /\ hsPc = "idle"
    /\ lastCall = "setError"
    /\ images = <<>>
    /\ error = Some(ErrFormNoImage)
    /\ Len(results) = 1
    /\ ~isGenerating

\* ----------------------------------------------------------------- C28
\* C28: a call whose callback throws on every call never rejects with what
\* the callback threw; at the end of the stream the callback has been called
\* for every progress frame of the response, the ones after the first throw
\* included, and the call has resolved if and only if the response held a
\* terminal-success frame.
C28_CallbackThrowCaught ==
    (gdOnProgress = "throws")
    => /\ gdError # Some(ErrCallback)
       /\ ended => /\ callbacks = ExpectedOf(CompleteFrames(script))
                   /\ lines = <<>>
                   /\ (gdPc = "resolved") <=> (SuccessFrames > 0)

\* The callback threw on a progress frame and the call resolved on the
\* terminal-success frame that followed.
C28_Witness ==
    /\ gdOnProgress = "throws"
    /\ gdPc = "resolved"
    /\ script = [frames |-> <<"P1", "S1">>, terminated |-> TRUE]
    /\ Len(callbacks) = 1

\* ----------------------------------------------------------------- C29
\* C29: in every state of the store currentProgress is non-null only while
\* isGenerating is true.
C29_SnapshotOnlyWhileGenerating ==
    (currentProgress # Null) => isGenerating

\* ----------------------------------------------------------------- C24
\* What a call holds that has read the first p units of the body w, as a
\* function of these units alone.
FromOwnStream(w, p, pc, buf, yl, cbs, fin) ==
    LET whole == DecodeFrom(<<>>, SubSeq(w, 1, p), 1, <<>>).text
        segs  == SplitLines(whole)
    IN /\ yl = Front(segs)
       /\ buf = Last(segs)
       /\ (pc # "lines") =>
             /\ fin = RefFinal(Front(segs), Len(segs) - 1)
             /\ cbs = RefCallbacks(Front(segs), 1)

\* The outcome of a call whose stream has ended, as a function of the body
\* w alone.
OutcomeOfOwnStream(w, pc, res, err) ==
    LET ls  == Front(SplitLines(DecodeFrom(<<>>, w, 1, <<>>).text))
        fin == RefFinal(ls, Len(ls))
    IN IF fin = Null
       THEN pc = "rejected" /\ err = Some(ErrNoResult) /\ res = Null
       ELSE \E token \in RandomTokens :
            \E r \in {Transform(fin[1], SampleInput, token)} :
               IF Has(r, "thrown")
               THEN pc = "rejected" /\ err = Some(r.thrown) /\ res = Null
               ELSE pc = "resolved" /\ res = Some(r)

\* C24: while two calls overlap, under every interleaving of their steps,
\* the lines yielded, the buffer, the callbacks made, the payload captured
\* and the outcome of each call are those of its own response alone.
C24_CallsIsolated ==
    (second.pc # "off")
    => /\ (gdPc \in {"read", "lines", "resolved"} \/ ended)
          => FromOwnStream(wire, pos, gdPc, buffer, yielded, callbacks,
                           finalResult)
       /\ ended => OutcomeOfOwnStream(wire, gdPc, gdResult, gdError)
       /\ (second.pc \in {"read", "lines", "resolved"} \/ second.ended)
          => FromOwnStream(second.wire, second.pos, second.pc, second.buffer,
                           second.yielded, second.callbacks,
                           second.finalResult)
       /\ second.ended
          => OutcomeOfOwnStream(second.wire, second.pc, second.gdResult,
                                second.gdError)

\* Of two overlapping calls the first resolved on its success frame without
\* a callback and the second rejected after one callback.
C24_Witness ==
    /\ gdPc = "resolved"
    /\ script = [frames |-> <<"S1">>, terminated |-> TRUE]
    /\ callbacks = <<>>
    /\ second.pc = "rejected"
    /\ second.ended
    /\ second.script = [frames |-> <<"P1">>, terminated |-> TRUE]
    /\ Len(second.callbacks) = 1

\* ----------------------------------------------------------------- C30
\* C30: whenever handleGenerateVideoWithStream has set isGenerating, it is
\* eventually false: however the request and the stream go, the flag is
\* cleared.
C30_VideoFlagCleared ==
    (video.handler = "stream" /\ video.isGenerating) ~> ~video.isGenerating

=============================================================================
